---- MODULE Spec2Model ----
(***************************************************************************)
(* Model of d3blocks/chord/Chord.py: set_edge_properties, show,            *)
(* get_data_ready_for_d3 and write_html.                                   *)
(*                                                                         *)
(* Conventions                                                             *)
(*   - a DataFrame is a record [n, col]: n rows, col a function from the   *)
(*     names of the columns that exist to sequences of n values;           *)
(*   - floats are kept in tenths (8 is 0.8) and printed by PyStrFloat;     *)
(*   - a Python argument that may be None, a str, a number or a list is a  *)
(*     record [kind, s, n, l] of which only the field named by kind counts;*)
(*   - Python strings are TLA+ strings, so X[:-1] is SubSeq(X,1,Len(X)-1). *)
(***************************************************************************)
EXTENDS Integers, Sequences, FiniteSets, TLC

VARIABLES df, color, opacity, nodes, config, file, X, emitted, status, pc

vars == <<df, color, opacity, nodes, config, file, X, emitted, status, pc>>

(* ---------------------------------------------------------------- bounds *)
MaxRows == 2

(* --------------------------------------------------------- input domains *)
Keys == {"A", "B"}
Descs == {"A", "B", "Z"}

KeyRank(k) == IF k = "A" THEN 1 ELSE IF k = "B" THEN 2 ELSE 3

ArgNone == [kind |-> "None", s |-> "", n |-> 0, l |-> <<>>]
ArgStr(v) == [kind |-> "str", s |-> v, n |-> 0, l |-> <<>>]
ArgNum(v) == [kind |-> "num", s |-> "", n |-> v, l |-> <<>>]
ArgList(v) == [kind |-> "list", s |-> "", n |-> 0, l |-> v]

NoNodes == [none |-> TRUE, d |-> <<>>]
Dict(d) == [none |-> FALSE, d |-> d]

(* ------------------------------------------------------ DataFrame helpers *)
HasCol(t, c) == c \in DOMAIN t.col

Repeat(n, v) == [i \in 1..n |-> v]

SetCol(t, c, v) ==
  [t EXCEPT !.col = [k \in (DOMAIN t.col) \cup {c} |-> IF k = c THEN v ELSE t.col[k]]]

(* ------------------------------------------------- set_edge_properties *)
DefaultOpacity == 8

DefaultColor == "#000000"

Result(s, t) == [status |-> s, df |-> t]

IsList(a) == a.kind = "list"

IsSourceOrTarget(a) == a.kind = "str" /\ a.s \in {"source", "target"}

IsHexColor(a) == a.kind = "str" /\ Len(a.s) = 7 /\ SubSeq(a.s, 1, 1) = "#"

\* lines 74-76: the whole column gets 0.8, then the rows whose endpoint is a
\* key of nodes get that node's opacity.
OpacityFromNodes(t, by, d) ==
  [i \in 1..t.n |-> IF t.col[by][i] \in DOMAIN d THEN d[t.col[by][i]].opacity
                     ELSE DefaultOpacity]

\* lines 65-85
ResolveOpacity(t, c, o, nd) ==
  IF IsList(o) /\ Len(o.l) # t.n
    THEN Result("Exception", t)
  ELSE IF o.kind = "None" /\ HasCol(t, "opacity")
    THEN Result("ok", t)
  ELSE IF ~nd.none /\ IsSourceOrTarget(o)
    THEN LET t1 == SetCol(t, "opacity", Repeat(t.n, DefaultOpacity))
         IN  IF DOMAIN nd.d = {} THEN Result("ok", t1)
             ELSE IF ~HasCol(t, o.s) THEN Result("KeyError", t1)
             ELSE Result("ok", SetCol(t, "opacity", OpacityFromNodes(t, o.s, nd.d)))
  ELSE IF o.kind = "num"
    THEN Result("ok", SetCol(t, "opacity", Repeat(t.n, o.n)))
  ELSE IF IsList(c) /\ Len(c.l) = t.n
    THEN Result("ok", t)
  ELSE Result("ok", SetCol(t, "opacity", Repeat(t.n, DefaultOpacity)))

\* utils.pre_processing: the required columns must exist.
RequiredColumns == {"source", "target", "weight"}

pre_processing(t) ==
  IF RequiredColumns \subseteq DOMAIN t.col THEN Result("ok", t)
  ELSE Result("SchemaError", t)

\* ColorFromNodes reading the target column whatever the color argument names
ColorFromTarget(t, by, d) ==
  [i \in 1..t.n |-> IF t.col["target"][i] \in DOMAIN d THEN d[t.col["target"][i]].color
                     ELSE DefaultColor]

\* lines 98-100
ColorFromNodes(t, by, d) ==
  [i \in 1..t.n |-> IF t.col[by][i] \in DOMAIN d THEN d[t.col[by][i]].color
                     ELSE DefaultColor]

\* lines 110-111: groupby(['source','target']) lists the distinct pairs in
\* sorted order; ismember gives every row the position of its pair there.
PairLess(p, q) ==
  \/ KeyRank(p[1]) < KeyRank(q[1])
  \/ KeyRank(p[1]) = KeyRank(q[1]) /\ KeyRank(p[2]) < KeyRank(q[2])

Pair(t, i) == <<t.col["source"][i], t.col["target"][i]>>

PairLabels(t) ==
  LET uidf == {Pair(t, i) : i \in 1..t.n}
  IN  [i \in 1..t.n |-> Cardinality({p \in uidf : PairLess(p, Pair(t, i))})]

\* utils.set_colors: one colour of the colormap per label.
set_colors(labels, cmap) == [i \in DOMAIN labels |-> cmap \o ":" \o ToString(labels[i])]

\* lines 91-112
ResolveColor(t, c, nd, cmap) ==
  IF c.kind = "None" /\ HasCol(t, "color")
    THEN t
  ELSE IF ~nd.none /\ IsSourceOrTarget(c)
    THEN SetCol(t, "color", ColorFromNodes(t, c.s, nd.d))
  ELSE IF IsHexColor(c)
    THEN SetCol(t, "color", Repeat(t.n, c.s))
  ELSE IF IsList(c) /\ Len(c.l) = t.n
    THEN t
  ELSE LET t1 == SetCol(t, "labels", PairLabels(t))
       IN  SetCol(t1, "color", set_colors(t1.col["labels"], cmap))

\* EdgeProperties with the color step moved in front of pre_processing
EdgePropertiesColorFirst(t, c, o, nd) ==
  LET r1 == ResolveOpacity(t, c, o, nd)
      t2 == IF {"source", "target"} \subseteq DOMAIN r1.df.col
              THEN ResolveColor(r1.df, c, nd, "tab20") ELSE r1.df
      r2 == pre_processing(t2)
  IN  IF r1.status # "ok" THEN r1 ELSE r2

\* lines 65-115, the call as a whole
EdgeProperties(t, c, o, nd) ==
  LET r1 == ResolveOpacity(t, c, o, nd)
      r2 == pre_processing(r1.df)
  IN  IF r1.status # "ok" THEN r1
      ELSE IF r2.status # "ok" THEN r2
      ELSE Result("ok", ResolveColor(r2.df, c, nd, "tab20"))

SetEdgeProperties ==
  /\ pc = "set_edge_properties"
  /\ LET r == EdgeProperties(df, color, opacity, nodes)
     IN  /\ df' = r.df
         /\ status' = r.status
         /\ pc' = IF r.status = "ok" THEN "returned" ELSE "raised"
  /\ UNCHANGED <<color, opacity, nodes, config, file, X, emitted>>

(* ------------------------------------------------------------------ show *)
NoEntry == [id |-> -1, desc |-> "", color |-> "", opacity |-> 0]

\* dict.get(key, default) with a made-up entry as the default
GetOrDefault(d, k) ==
  IF k \in DOMAIN d THEN [none |-> FALSE, v |-> d[k]]
  ELSE [none |-> FALSE, v |-> [id |-> 0, desc |-> k, color |-> "#000000", opacity |-> 8]]

\* dict.get(key): the entry, or None
Get(d, k) ==
  IF k \in DOMAIN d THEN [none |-> FALSE, v |-> d[k]] ELSE [none |-> TRUE, v |-> NoEntry]

\* list(map(lambda x: labels.get(x)[field], column)); subscripting None raises
AllFound(d, column) == \A i \in 1..Len(column) : ~Get(d, column[i]).none

MapField(d, column, field) == [i \in 1..Len(column) |-> Get(d, column[i]).v[field]]

\* lines 138-140
ShowIds(t, nd) ==
  IF nd.none THEN Result("AttributeError", t)
  ELSE IF ~AllFound(nd.d, t.col["source"]) THEN Result("TypeError", t)
  ELSE LET t1 == SetCol(t, "source_id", MapField(nd.d, t.col["source"], "id"))
       IN  IF ~AllFound(nd.d, t.col["target"]) THEN Result("TypeError", t1)
           ELSE Result("ok", SetCol(t1, "target_id", MapField(nd.d, t.col["target"], "id")))

Show ==
  /\ pc = "returned"
  /\ LET r == ShowIds(df, nodes)
     IN  /\ df' = r.df
         /\ status' = r.status
         /\ pc' = IF r.status = "ok" THEN "get_data_ready_for_d3" ELSE "raised"
  /\ UNCHANGED <<color, opacity, nodes, config, file, X, emitted>>

(* ------------------------------------------------- get_data_ready_for_d3 *)
PyStrInt(n) == ToString(n)

\* str() of a float kept in tenths: 5 prints as 0.5
PyStrFloat(t) == ToString(t \div 10) \o "." \o ToString(t % 10)

\* X[:-1]
DropLast(s) == IF Len(s) = 0 THEN s ELSE SubSeq(s, 1, Len(s) - 1)

Min(S) == CHOOSE m \in S : \A x \in S : m <= x

FirstIndex(s, v) == Min({i \in 1..Len(s) : s[i] = v})

RECURSIVE FirstIndexByValue(_, _)
FirstIndexByValue(s, vals) ==
  IF vals = {} THEN <<>>
  ELSE LET m == Min(vals)
       IN  <<FirstIndex(s, m)>> \o FirstIndexByValue(s, vals \ {m})

RECURSIVE FirstSeen(_, _)
FirstSeen(s, i) ==
  IF i > Len(s) THEN <<>>
  ELSE IF \E j \in 1..(i - 1) : s[j] = s[i] THEN FirstSeen(s, i + 1)
  ELSE <<i>> \o FirstSeen(s, i + 1)

\* the first positions in order of appearance (pandas.unique), not sorted by value
UniqueIndexUnsorted(s) == FirstSeen(s, 1)

\* line 208: np.unique(list_id, return_index=True)[1], the first position of
\* every distinct value, the values taken in sorted order
UniqueIndex(s) == FirstIndexByValue(s, {s[i] : i \in 1..Len(s)})

\* lines 206-207
ListId(t, d) ==
  MapField(d, t.col["source"], "id") \o MapField(d, t.col["target"], "id")

ListName(t, d) ==
  MapField(d, t.col["source"], "desc") \o MapField(d, t.col["target"], "desc")

\* lines 213-214: the catalog is read with the description as the key
NodeEntry(d, list_name, i) == Get(d, list_name[i])

\* lines 212-218: what one pass of the loop reads
Emitted(t, d) ==
  LET list_name == ListName(t, d)
      idx == UniqueIndex(ListId(t, d))
  IN  [k \in 1..Len(idx) |->
         [i |-> idx[k],
          name |-> list_name[idx[k]],
          color |-> NodeEntry(d, list_name, idx[k]).v.color,
          opacity |-> NodeEntry(d, list_name, idx[k]).v.opacity]]

\* lines 215-218
NodeJson(e) ==
  "{\"name\":\"" \o e.name \o "\"," \o "\"color\":\"" \o e.color \o "\","
    \o "\"opacity\":" \o PyStrFloat(e.opacity) \o "}, "

RECURSIVE NodesJson(_, _)
NodesJson(es, k) ==
  IF k > Len(es) THEN "" ELSE NodeJson(es[k]) \o NodesJson(es, k + 1)

\* line 225
LinkJson(t, i) ==
  "{\"source\":" \o PyStrInt(t.col["source_id"][i])
    \o ",\"target\":" \o PyStrInt(t.col["target_id"][i])
    \o ",\"value\":" \o PyStrInt(t.col["weight"][i])
    \o ",\"opacity\":" \o PyStrFloat(t.col["opacity"][i])
    \o ",\"color\":" \o "\"" \o t.col["color"][i] \o "\"" \o "},"

RECURSIVE LinksJson(_, _)
LinksJson(t, i) ==
  IF i > t.n THEN "" ELSE LinkJson(t, i) \o LinksJson(t, i + 1)

\* lines 211-226
Payload(t, es) ==
  LET X1 == "{\"nodes\":[" \o NodesJson(es, 1)
      X2 == DropLast(X1) \o "],"
      X3 == X2 \o " \"links\":[" \o LinksJson(t, 1)
  IN  DropLast(X3) \o "]}"

NoPayload == ""

\* lines 205-229
DataReady(t, d) ==
  IF ~(AllFound(d, t.col["source"]) /\ AllFound(d, t.col["target"]))
    THEN [status |-> "TypeError", X |-> NoPayload, emitted |-> <<>>]
  ELSE LET list_name == ListName(t, d)
           idx == UniqueIndex(ListId(t, d))
       IN  IF \E k \in 1..Len(idx) : NodeEntry(d, list_name, idx[k]).none
             THEN [status |-> "TypeError", X |-> NoPayload, emitted |-> <<>>]
           ELSE IF t.n > 0 /\ ~({"opacity", "color"} \subseteq DOMAIN t.col)
             THEN [status |-> "KeyError", X |-> NoPayload, emitted |-> <<>>]
           ELSE [status |-> "ok", X |-> Payload(t, Emitted(t, d)),
                 emitted |-> Emitted(t, d)]

GetDataReady ==
  /\ pc = "get_data_ready_for_d3"
  /\ LET r == DataReady(df, nodes.d)
     IN  /\ X' = r.X
         /\ emitted' = r.emitted
         /\ status' = r.status
         /\ pc' = IF r.status = "ok" THEN "write_html" ELSE "raised"
  /\ UNCHANGED <<df, color, opacity, nodes, config, file>>

(* ------------------------------------------------------------ write_html *)
NoFile == [exists |-> FALSE, content |-> ""]

OldFile == [exists |-> TRUE, content |-> "old"]

\* lines 164-177, 185: index_template.render(content)
Render(x) == "<script>" \o x \o "</script>"

\* line 180
MustRemove(cfg, f) == cfg.overwrite /\ f.exists

\* lines 180-182: os.remove, when asked for and the file is there
WriteHtmlRemove ==
  /\ pc = "write_html"
  /\ IF MustRemove(config, file)
       THEN file' = NoFile /\ pc' = "sleep"
       ELSE file' = file /\ pc' = "open"
  /\ UNCHANGED <<df, color, opacity, nodes, config, X, emitted, status>>

\* line 183
WriteHtmlSleep ==
  /\ pc = "sleep"
  /\ pc' = "open"
  /\ UNCHANGED <<df, color, opacity, nodes, config, file, X, emitted, status>>

\* line 184: open(index_file, "w") creates or truncates
Opened(cfg, f) == [exists |-> TRUE, content |-> ""]

\* write_html leaving a file alone that exists when overwrite is off
WriteHtmlOpenUnlessExists ==
  /\ pc = "open"
  /\ IF ~config.overwrite /\ file.exists
       THEN file' = file /\ pc' = "done"
       ELSE file' = Opened(config, file) /\ pc' = "write"
  /\ UNCHANGED <<df, color, opacity, nodes, config, X, emitted, status>>

WriteHtmlOpen ==
  /\ pc = "open"
  /\ file' = Opened(config, file)
  /\ pc' = "write"
  /\ UNCHANGED <<df, color, opacity, nodes, config, X, emitted, status>>

\* line 185, and show's return at line 146
WriteHtmlWrite ==
  /\ pc = "write"
  /\ file' = [exists |-> TRUE, content |-> Render(X)]
  /\ pc' = "done"
  /\ UNCHANGED <<df, color, opacity, nodes, config, X, emitted, status>>

\* the process dies inside write_html
Crash ==
  /\ pc \in {"write_html", "sleep", "open", "write"}
  /\ pc' = "crashed"
  /\ UNCHANGED <<df, color, opacity, nodes, config, file, X, emitted, status>>

(* ----------------------------------------------------------------- inputs *)
NodeColor(k) == IF k = "A" THEN "#fff" ELSE "#000"

NodeOpacity(k) == IF k = "A" THEN 5 ELSE 9

Injective(f) == \A a, b \in DOMAIN f : a # b => f[a] # f[b]

\* node catalogs as set_label_properties hands them over: distinct ids, and a
\* description that is the key, another node's key or a text of its own
Catalogs ==
  UNION { { [k \in ks |-> [id |-> ids[k], desc |-> ds[k],
                           color |-> NodeColor(k), opacity |-> NodeOpacity(k)]] :
              ids \in {f \in [ks -> 0..(Cardinality(Keys) - 1)] : Injective(f)},
              ds \in [ks -> Descs] } : ks \in SUBSET Keys }

PlainCatalogs ==
  { [k \in ks |-> [id |-> KeyRank(k) - 1, desc |-> k,
                   color |-> NodeColor(k), opacity |-> NodeOpacity(k)]] : ks \in SUBSET Keys }

Drop(t, c) == [t EXCEPT !.col = [k \in (DOMAIN t.col) \ {c} |-> t.col[k]]]

Table(src, tgt) ==
  [n |-> Len(src),
   col |-> [k \in RequiredColumns |->
              IF k = "source" THEN src ELSE IF k = "target" THEN tgt
              ELSE Repeat(Len(src), 3)]]

WithOptional(t, opt) ==
  LET t1 == IF "color" \in opt THEN SetCol(t, "color", Repeat(t.n, "#aaaaaa")) ELSE t
  IN  IF "opacity" \in opt THEN SetCol(t1, "opacity", Repeat(t.n, 6)) ELSE t1

KeySeqs(n) == [1..n -> Keys]

EdgeTables ==
  UNION { { Table(src, tgt) : src \in KeySeqs(n), tgt \in KeySeqs(n) } : n \in 0..MaxRows }

InputTables ==
  { WithOptional(t, opt) : t \in EdgeTables, opt \in SUBSET {"color", "opacity"} }
    \cup { Drop(WithOptional(t, opt), c) :
             t \in EdgeTables, opt \in SUBSET {"color", "opacity"}, c \in RequiredColumns }

ColorList(n) == [i \in 1..n |-> IF i % 2 = 1 THEN "#111111" ELSE "#222222"]

OpacityList(n) == [i \in 1..n |-> i]

ColorArgs(n) ==
  {ArgNone, ArgStr("source"), ArgStr("target"), ArgStr("source-target"), ArgStr("#123456"),
   ArgList(ColorList(n)), ArgList(ColorList(n + 1))}

OpacityArgs(n) ==
  {ArgNone, ArgStr("source"), ArgStr("target"), ArgNum(3),
   ArgList(OpacityList(n)), ArgList(OpacityList(n + 1))}

Idle ==
  /\ config = [overwrite |-> FALSE]
  /\ file = NoFile
  /\ X = NoPayload
  /\ emitted = <<>>
  /\ status = "ok"
  /\ pc = "set_edge_properties"

(* ---------------------------------------------------------- specifications *)
\* set_edge_properties on every input of the bounded domain
InitEdge ==
  /\ df \in InputTables
  /\ color \in ColorArgs(df.n)
  /\ opacity \in OpacityArgs(df.n)
  /\ nodes \in {NoNodes} \cup {Dict(d) : d \in PlainCatalogs}
  /\ Idle

NextEdge == SetEdgeProperties

SpecEdge == InitEdge /\ [][NextEdge]_vars

\* the chord pipeline: set_edge_properties(df, nodes=catalog), then
\* show(df, config, labels=catalog)
Init ==
  /\ df \in EdgeTables
  /\ color \in {ArgStr("source"), ArgStr("target"), ArgStr("#123456")}
  /\ opacity \in {ArgStr("source"), ArgNum(3)}
  /\ nodes \in {Dict(d) : d \in Catalogs}
  /\ config \in [overwrite : BOOLEAN]
  /\ file \in {NoFile, OldFile}
  /\ X = NoPayload
  /\ emitted = <<>>
  /\ status = "ok"
  /\ pc = "set_edge_properties"

Next ==
  \/ SetEdgeProperties
  \/ Show
  \/ GetDataReady
  \/ WriteHtmlRemove
  \/ WriteHtmlSleep
  \/ WriteHtmlOpen
  \/ WriteHtmlWrite
  \/ Crash

Spec == Init /\ [][Next]_vars

(* ----------------------------------------------------------------- claims *)
\* column c exists and has a value for every row
Populated(t, c) == HasCol(t, c) /\ Len(t.col[c]) = t.n

ListOfRowLength(a) == IsList(a) /\ Len(a.l) = df.n

MissingRequired == ~(RequiredColumns \subseteq DOMAIN df.col)

\* column c is, after the step, what it was before it
Unwritten(c) ==
  /\ HasCol(df', c) = HasCol(df, c)
  /\ HasCol(df, c) => df'.col[c] = df.col[c]

\* C1: a per-row opacity sequence of the table's length is the opacity column
\* of the returned table, element by element.
C1_OpacitySequenceApplied ==
  (pc = "returned" /\ ListOfRowLength(opacity)) =>
    /\ HasCol(df, "opacity")
    /\ \A i \in 1..df.n : df.col["opacity"][i] = opacity.l[i]

\* C2: a per-row color sequence of the table's length is the color column of
\* the returned table, element by element.
C2_ColorSequenceApplied ==
  (pc = "returned" /\ ListOfRowLength(color)) =>
    /\ HasCol(df, "color")
    /\ \A i \in 1..df.n : df.col["color"][i] = color.l[i]

\* C3: whenever set_edge_properties returns, the table has a color and an
\* opacity for every row.
C3_ColorAndOpacityPopulated ==
  pc = "returned" => Populated(df, "color") /\ Populated(df, "opacity")

\* C4 as stated: with a required column missing the call fails, and when the
\* schema failure is raised neither the opacity nor the color column has been
\* written by the call.
C4_NothingWrittenBeforeSchemaError ==
  [][(pc = "set_edge_properties" /\ MissingRequired) =>
       /\ status' # "ok"
       /\ status' = "SchemaError" => Unwritten("opacity") /\ Unwritten("color")]_vars

\* C4 as amended: with a required column missing the call fails before the
\* color step has run: no color column and no labels column has been written
\* by the call, whichever error ends it.
C4_NoColorWrittenBeforeFailure ==
  [][(pc = "set_edge_properties" /\ MissingRequired) =>
       /\ status' # "ok"
       /\ pc' = "raised"
       /\ Unwritten("color")
       /\ Unwritten("labels")]_vars

\* the schema failure raised after the opacity step wrote its default
C4_Witness ==
  /\ pc = "raised"
  /\ status = "SchemaError"
  /\ ~HasCol(df, "weight")
  /\ ~HasCol(df, "color")
  /\ df.n > 0
  /\ HasCol(df, "opacity")
  /\ df.col["opacity"][1] = 8
  /\ color = ArgStr("#123456")

PayloadReady == pc \in {"write_html", "sleep", "open", "write", "done", "crashed"}

Endpoints == {df.col["source"][i] : i \in 1..df.n} \cup {df.col["target"][i] : i \in 1..df.n}

EmittedId(k) == ListId(df, nodes.d)[emitted[k].i]

\* C5: for a non-empty table the emitted nodes are one per referenced id,
\* in strictly increasing order of id.
C5_NodesOncePerIdAscending ==
  (PayloadReady /\ df.n > 0) =>
    /\ \A k \in 1..(Len(emitted) - 1) : EmittedId(k) < EmittedId(k + 1)
    /\ {EmittedId(k) : k \in 1..Len(emitted)} = {nodes.d[key].id : key \in Endpoints}

\* two nodes, the larger id met first, and a key that occurs more than once
C5_Witness ==
  /\ pc = "done"
  /\ df.n = 2
  /\ Len(emitted) = 2
  /\ emitted[1].i > emitted[2].i
  /\ df.col["source"][1] = df.col["target"][2]

C6Input ==
  /\ df.n = 1
  /\ df.col["source"] = <<"A">>
  /\ df.col["target"] = <<"B">>
  /\ df.col["weight"] = <<3>>
  /\ nodes.d = [k \in Keys |-> [id |-> KeyRank(k) - 1, desc |-> k,
                                color |-> NodeColor(k), opacity |-> NodeOpacity(k)]]
  /\ color = ArgStr("source")
  /\ opacity = ArgStr("source")

\* C6: for nodes A, B and the edge A->B of weight 3, colored and shaded by
\* source, the payload is exactly the JSON object of the round-trip example.
C6_RoundTripPayload ==
  (PayloadReady /\ C6Input) =>
    X = "{\"nodes\":[{\"name\":\"A\",\"color\":\"#fff\",\"opacity\":0.5},{\"name\":\"B\",\"color\":\"#000\",\"opacity\":0.9}],\"links\":[{\"source\":0,\"target\":1,\"value\":3,\"opacity\":0.5,\"color\":\"#fff\"}]}"

MissingKey == \E key \in Endpoints : key \notin DOMAIN nodes.d

\* C7: with an edge endpoint that is no key of the catalog, show raises while
\* resolving the ids: no payload is produced, write_html is not reached and
\* the file is left as it was.
C7_MissingKeyStopsShow ==
  [][MissingKey =>
       /\ pc = "returned" => pc' = "raised" /\ status' = "TypeError"
       /\ pc' \notin {"get_data_ready_for_d3", "write_html", "sleep", "open", "write", "done"}
       /\ X' = NoPayload
       /\ file' = file]_vars

C7_Witness ==
  /\ pc = "raised"
  /\ status = "TypeError"
  /\ MissingKey
  /\ file = OldFile
  /\ X = NoPayload

\* C8: with nodes given and color 'source' or 'target', every row whose
\* endpoint is a key of nodes gets that node's color, every other row gets
\* '#000000', and the call raises only for a missing column or an opacity
\* sequence of the wrong length.
C8_ColorFromNodesOrBlack ==
  (~nodes.none /\ IsSourceOrTarget(color)) =>
    /\ pc = "returned" =>
         /\ HasCol(df, "color")
         /\ \A i \in 1..df.n :
              LET key == df.col[color.s][i]
              IN  df.col["color"][i] =
                    IF key \in DOMAIN nodes.d THEN nodes.d[key].color ELSE "#000000"
    /\ pc = "raised" =>
         \/ MissingRequired
         \/ IsList(opacity) /\ Len(opacity.l) # df.n

\* one row colored from the catalog and one row left black
C8_Witness ==
  /\ pc = "returned"
  /\ ~nodes.none
  /\ color = ArgStr("source")
  /\ df.n = 2
  /\ df.col["source"][1] \in DOMAIN nodes.d
  /\ df.col["source"][2] \notin DOMAIN nodes.d
  /\ df.col["color"] = <<nodes.d[df.col["source"][1]].color, "#000000">>

\* C9: every emitted node carries the description, color and opacity of the
\* catalog entry that has its id.
C9_NodeCarriesOwnEntry ==
  PayloadReady =>
    \A k \in 1..Len(emitted) :
      \A key \in DOMAIN nodes.d :
        nodes.d[key].id = EmittedId(k) =>
          /\ emitted[k].name = nodes.d[key].desc
          /\ emitted[k].color = nodes.d[key].color
          /\ emitted[k].opacity = nodes.d[key].opacity

\* C10: in write_html overwrite decides only whether the file is removed
\* first: the removal comes strictly before the open, the path is opened for
\* writing either way, and a run that ends without a crash leaves the newly
\* rendered document in the file.
C10_OverwriteOnlyAddsRemoval ==
  [][/\ (pc = "write_html" /\ pc' # "crashed") =>
          IF config.overwrite /\ file.exists
            THEN pc' = "sleep" /\ ~file'.exists
            ELSE pc' = "open" /\ file' = file
     /\ pc = "sleep" => ~file.exists /\ ~file'.exists
     /\ (pc = "open" /\ pc' # "crashed") => pc' = "write" /\ file'.exists
     /\ pc' = "done" => file' = [exists |-> TRUE, content |-> Render(X')]
     /\ pc' = "crashed" => file' = file]_vars

\* the old file is gone and the new one is not yet opened
C10_Witness ==
  /\ pc = "sleep"
  /\ config.overwrite
  /\ ~file.exists

====
